---------------------------- MODULE Spec2Model ----------------------------
(***************************************************************************)
(* Model of src/transforms.py: the geometric operators                     *)
(* randomly_displace_and_pad, dpi_adjusting and SafeRandomScale.apply, and *)
(* the pipeline construction of IAMImageTransforms.__post_init__.          *)
(*                                                                         *)
(* Real-valued parameters (scale, random_scale_limit, the sampled scale    *)
(* factor) are exact rationals <<num, den>> with den > 0; binary floating  *)
(* point rounding is not modelled.  An image is a record                   *)
(* [shape |-> <<h, w>>, dtype, px] with px a sequence of h rows of w       *)
(* pixels.  Pixels computed by library primitives (cv.resize, the          *)
(* albumentations operators) are not modelled pixel by pixel: they are the  *)
(* value Unknown.                                                          *)
(***************************************************************************)
EXTENDS Integers, Sequences, FiniteSets, TLC

VARIABLES img, args, ret, effects, obj, run

vars == <<img, args, ret, effects, obj, run>>

(* ------------------------------ bounds --------------------------------- *)
\* largest ordinary image / frame side drawn for the operator calls
MaxDim == 3
\* largest side of max_img_size and of pipeline inputs
MaxCfgDim == 3
\* number of sample points on each side of 1 for the random scale factor
ScaleGrid == 2

(* --------------------------- value domains ----------------------------- *)
None == "None"
\* the absent object, image, run or exception
Nothing == [kind |-> "None"]
Unknown == "?"

DTypes == {"uint8", "float32"}

\* image sides: the small ones, plus the sides of the documented examples
ImgSides == (1..MaxDim) \cup {10}
FrameSides == (1..MaxDim) \cup {5}
GeomSides == (1..MaxDim) \cup {100}

\* DPI scales: the default 0.5, scales below and above 1, and the invalid 0
DpiScales == {<<0, 1>>, <<1, 4>>, <<1, 2>>, <<2, 3>>, <<1, 1>>, <<3, 2>>, <<2, 1>>}
\* constructor arguments
ParseMethods == {"word", "line", "form", "page", "Form"}
CfgSides == 1..MaxCfgDim
CfgScales == {<<1, 2>>, <<3, 5>>, <<3, 2>>}
CfgScaleLimits == {<<0, 1>>, <<1, 10>>, <<3, 5>>}
CfgRotateLimits == {10}
CfgNormalizeParams == {<<0, 1>>, <<1, 2>>}
\* sampled scale factors of SafeRandomScale (1 + scale_delta)
ScaleFactors == {<<-1, 2>>, <<0, 1>>, <<1, 4>>, <<1, 2>>, <<9, 10>>, <<1, 1>>,
                 <<11, 10>>, <<3, 2>>, <<2, 1>>}

Ramp(h, w) == [r \in 1..h |-> [c \in 1..w |-> (r - 1) * w + c]]
Checker(h, w) == [r \in 1..h |-> [c \in 1..w |-> (r + c) % 2]]

Image(h, w, dtype, px) == [shape |-> <<h, w>>, dtype |-> dtype, px |-> px]

Images(sides) ==
    { Image(h, w, d, p) : <<h, w, d>> \in sides \X sides \X DTypes,
                          p \in {"ramp", "checker"} }

UnknownPixels(h, w) == [r \in 1..h |-> [c \in 1..w |-> Unknown]]

Pixels(im) ==
    IF im.px = "unknown" THEN UnknownPixels(im.shape[1], im.shape[2])
    ELSE IF im.px = "ramp" THEN Ramp(im.shape[1], im.shape[2])
    ELSE IF im.px = "checker" THEN Checker(im.shape[1], im.shape[2])
    ELSE im.px

Min(a, b) == IF a <= b THEN a ELSE b
Max(a, b) == IF a >= b THEN a ELSE b

(* ------------------------ rational arithmetic -------------------------- *)
RatMul(a, b) == <<a[1] * b[1], a[2] * b[2]>>
RatAdd(a, b) == <<a[1] * b[2] + b[1] * a[2], a[2] * b[2]>>

\* math.ceil(k * q) for an integer k and a rational q
CeilMul(k, q) == -((-(k * q[1])) \div q[2])
\* int(k * q): truncation toward zero
IntMul(k, q) == IF k * q[1] >= 0 THEN (k * q[1]) \div q[2]
                ELSE -((-(k * q[1])) \div q[2])

(* -------------------- randomly_displace_and_pad ------------------------ *)
\* random.randint(a, b): every integer of the closed range
randint(a, b) == a..b

\* the crop taken from the opposite corner
SliceBottomRight(px, img_h, img_w) ==
    [r \in 1..img_h |-> [c \in 1..img_w |->
        px[Len(px) - img_h + r][Len(px[1]) - img_w + c]]]

\* img[:img_h, :img_w]
SliceTopLeft(px, img_h, img_w) ==
    [r \in 1..img_h |-> [c \in 1..img_w |-> px[r][c]]]

\* an uninitialised canvas instead of a zero-filled one
np_empty(frame_h, frame_w, dtype) ==
    Image(frame_h, frame_w, dtype, [r \in 1..frame_h |-> [c \in 1..frame_w |-> 1]])

\* np.zeros((frame_h, frame_w), dtype)
np_zeros(frame_h, frame_w, dtype) ==
    Image(frame_h, frame_w, dtype, [r \in 1..frame_h |-> [c \in 1..frame_w |-> 0]])

\* res[pad_top:pad_bottom, pad_left:pad_right] = src
AssignSlice(res, pad_top, pad_bottom, pad_left, pad_right, src) ==
    [res EXCEPT !.px =
        [r \in 1..res.shape[1] |-> [c \in 1..res.shape[2] |->
            IF /\ pad_top < r /\ r <= pad_bottom
               /\ pad_left < c /\ c <= pad_right
            THEN src[r - pad_top][c - pad_left]
            ELSE res.px[r][c]]]]

\* both dimensions must exceed, instead of either
ExceedsBoth(frame_h, frame_w, img_h, img_w) == frame_h < img_h /\ frame_w < img_w

\* frame_h < img_h or frame_w < img_w
Exceeds(frame_h, frame_w, img_h, img_w) == frame_h < img_h \/ frame_w < img_w

Raise(type, msg, eff) == [kind |-> "raise", type |-> type, msg |-> msg, effects |-> eff]
Return(value, eff) == [kind |-> "return", value |-> value, effects |-> eff]

\* the set of outcomes of one call; each outcome records what was returned or
\* raised, the offsets sampled and the order of the side effects
randomly_displace_and_pad(image, padded_size, crop_if_necessary) ==
    LET frame_h == padded_size[1]
        frame_w == padded_size[2]
        h0 == image.shape[1]
        w0 == image.shape[2]
        exceeds == Exceeds(frame_h, frame_w, h0, w0)
        img_h == IF exceeds THEN Min(h0, frame_h) ELSE h0
        img_w == IF exceeds THEN Min(w0, frame_w) ELSE w0
        src == IF exceeds THEN SliceTopLeft(Pixels(image), img_h, img_w)
               ELSE Pixels(image)
        pre == IF exceeds THEN <<"warning", "crop">> ELSE <<>>
        res == np_zeros(frame_h, frame_w, image.dtype)
    IN  IF exceeds /\ ~crop_if_necessary
        THEN {Raise("AssertionError",
                    <<"Frame is smaller than the image", frame_h, frame_w, h0, w0>>,
                    <<"raise">>)}
        \* random.randint raises on an empty range
        ELSE IF randint(0, frame_h - img_h) = {}
        THEN {Raise("ValueError", <<"empty range for randrange()">>,
                    pre \o <<"zeros", "randint", "raise">>)}
        ELSE IF randint(0, frame_w - img_w) = {}
        THEN {Raise("ValueError", <<"empty range for randrange()">>,
                    pre \o <<"zeros", "randint", "randint", "raise">>)}
        ELSE { [kind |-> "return",
                value |-> AssignSlice(res, pad_top, pad_top + img_h,
                                      pad_left, pad_left + img_w, src),
                pad_top |-> pad_top, pad_left |-> pad_left,
                effects |-> pre \o <<"zeros", "randint", "randint", "assign">>]
               : pad_top \in randint(0, frame_h - img_h),
                 pad_left \in randint(0, frame_w - img_w) }

(* ---------------- specification of the displacement call --------------- *)
Idle == [kind |-> "idle"]
NoArgs == [op |-> None]

InitDisplace ==
    /\ img \in Images(ImgSides)
    /\ args \in [op : {"randomly_displace_and_pad"},
                 padded_size : FrameSides \X FrameSides,
                 crop_if_necessary : BOOLEAN]
    /\ ret = Idle
    /\ effects = <<>>
    /\ obj = Nothing
    /\ run = Nothing

\* the call ends: what it returned or raised, and the effects it had
Outcome(out) == [x \in (DOMAIN out) \ {"effects"} |-> out[x]]

Finish(out) ==
    /\ ret' = Outcome(out)
    /\ effects' = out.effects

CallDisplace ==
    /\ ret = Idle
    /\ args.op = "randomly_displace_and_pad"
    /\ \E out \in randomly_displace_and_pad(img, args.padded_size,
                                            args.crop_if_necessary) :
          Finish(out)
    /\ UNCHANGED <<img, args, obj, run>>

NextDisplace == CallDisplace

SpecDisplace == InitDisplace /\ [][NextDisplace]_vars

(* ------------------- claims on the displacement call ------------------- *)
Called == ret # Idle
FrameH == args.padded_size[1]
FrameW == args.padded_size[2]
ImgH == img.shape[1]
ImgW == img.shape[2]
Fits == ImgH <= FrameH /\ ImgW <= FrameW

\* the canvas holds the top-left (ch, cw) block of the input at the sampled
\* offsets and zero everywhere else
CanvasHolds(ch, cw) ==
    /\ ret.kind = "return"
    /\ ret.value.shape = args.padded_size
    /\ ret.value.dtype = img.dtype
    /\ Len(ret.value.px) = FrameH
    /\ \A r \in 1..FrameH :
          /\ Len(ret.value.px[r]) = FrameW
          /\ \A c \in 1..FrameW :
                ret.value.px[r][c] =
                    IF /\ ret.pad_top < r /\ r <= ret.pad_top + ch
                       /\ ret.pad_left < c /\ c <= ret.pad_left + cw
                    THEN Pixels(img)[r - ret.pad_top][c - ret.pad_left]
                    ELSE 0

\* the offsets the call can sample, over all its outcomes
OffsetsOf(field) ==
    { o[field] : o \in { x \in randomly_displace_and_pad(
                                   img, args.padded_size, args.crop_if_necessary) :
                           x.kind = "return" } }

\* C1: when the image fits the frame, every call returns a canvas of exactly
\* the frame size and the input's dtype that holds the whole input at the
\* sampled offsets (each within [0, frame - img]) and zero elsewhere, and
\* every offset of that range can be sampled.
C1_DisplaceFits ==
    Fits =>
        /\ OffsetsOf("pad_top") = 0..(FrameH - ImgH)
        /\ OffsetsOf("pad_left") = 0..(FrameW - ImgW)
        /\ Called =>
              /\ CanvasHolds(ImgH, ImgW)
              /\ ret.pad_top \in 0..(FrameH - ImgH)
              /\ ret.pad_left \in 0..(FrameW - ImgW)

C1_Witness ==
    /\ Called /\ ret.kind = "return"
    /\ ImgH < FrameH /\ ImgW < FrameW
    /\ ret.pad_top > 0 /\ ret.pad_left > 0
    /\ ret.pad_top + ImgH < FrameH
    /\ img.px = "checker" /\ ImgH > 1

\* C2: when either frame dimension is smaller than the image and cropping is
\* disabled, the call raises the size-mismatch error, before the canvas is
\* allocated and before any offset is sampled.
C2_FrameTooSmallRaises ==
    (Called /\ ~Fits /\ ~args.crop_if_necessary) =>
        /\ ret.kind = "raise"
        /\ ret.type = "AssertionError"
        /\ \A i \in 1..Len(effects) : effects[i] \notin {"zeros", "randint", "assign"}

C2_Witness ==
    /\ Called /\ ret.kind = "raise"
    /\ ~args.crop_if_necessary
    /\ FrameH < ImgH /\ FrameW >= ImgW

\* C3: when either frame dimension is smaller than the image and cropping is
\* enabled, the call returns a canvas of exactly the frame size that holds
\* the top-left (min(img_h, frame_h), min(img_w, frame_w)) block of the input
\* and zero elsewhere; the offset is 0 in each dimension in which the image
\* exceeded the frame and ranges over [0, frame - img] in a dimension in which
\* it fits; a (10,10) image in a (5,5) frame yields its top-left 5x5 block.
C3_DisplaceCrops ==
    (~Fits /\ args.crop_if_necessary) =>
        /\ OffsetsOf("pad_top") = IF FrameH < ImgH THEN {0} ELSE 0..(FrameH - ImgH)
        /\ OffsetsOf("pad_left") = IF FrameW < ImgW THEN {0} ELSE 0..(FrameW - ImgW)
        /\ Called =>
              /\ CanvasHolds(Min(ImgH, FrameH), Min(ImgW, FrameW))
              /\ FrameH < ImgH => ret.pad_top = 0
              /\ FrameW < ImgW => ret.pad_left = 0
              /\ (img.shape = <<10, 10>> /\ args.padded_size = <<5, 5>>) =>
                    ret.value.px = [r \in 1..5 |-> [c \in 1..5 |-> Pixels(img)[r][c]]]

C3_Witness ==
    /\ Called /\ ret.kind = "return"
    /\ args.crop_if_necessary
    /\ img.shape = <<10, 10>> /\ args.padded_size = <<5, 5>>
    /\ img.px = "ramp"

\* a dimension that fits keeps a non-zero offset while the other is cropped
C3_MixedReached ==
    /\ Called /\ ret.kind = "return"
    /\ FrameH < ImgH /\ ImgW < FrameW /\ ret.pad_left > 0

(* ---------------- dpi_adjusting and SafeRandomScale.apply --------------- *)
\* cv.resize(img, dsize): dsize is (width, height); a non-positive target
\* size is rejected; the interpolated pixels are not modelled
cv_resize(image, dsize) ==
    IF dsize[1] <= 0 \/ dsize[2] <= 0
    THEN Raise("cv.error", <<"resize", dsize>>, <<"resize">>)
    ELSE Return(Image(dsize[2], dsize[1], image.dtype, "unknown"), <<"resize">>)

\* the target size handed over as (height, width)
dpi_adjusting_swapped(image, scale) ==
    cv_resize(image, <<CeilMul(image.shape[1], scale), CeilMul(image.shape[2], scale)>>)

dpi_adjusting(image, scale) ==
    LET height == image.shape[1]
        width == image.shape[2]
        new_height == CeilMul(height, scale)
        new_width == CeilMul(width, scale)
    IN  cv_resize(image, <<new_width, new_height>>)

\* the guard with a strict comparison
DegenerateSizeStrict(new_height, new_width) == new_height < 0 \/ new_width < 0

\* new_height <= 0 or new_width <= 0
DegenerateSize(new_height, new_width) == new_height <= 0 \/ new_width <= 0

\* A.RandomScale.apply: scale both sides by the factor, truncating, and resize
RandomScale_apply(image, scale) ==
    LET r == cv_resize(image, <<IntMul(image.shape[2], scale),
                                IntMul(image.shape[1], scale)>>)
    IN  [r EXCEPT !.effects = <<"super.apply">> \o @]

SafeRandomScale_apply(image, scale) ==
    LET height == image.shape[1]
        width == image.shape[2]
        new_height == IntMul(height, scale)
        new_width == IntMul(width, scale)
    IN  IF DegenerateSize(new_height, new_width)
        THEN Return(image, <<>>)
        ELSE RandomScale_apply(image, scale)

(* ------------- specification of the two scaling operators -------------- *)
InitGeom ==
    /\ img \in Images(GeomSides)
    /\ args \in [op : {"dpi_adjusting"}, scale : DpiScales]
              \cup [op : {"SafeRandomScale.apply"}, scale : ScaleFactors]
    /\ ret = Idle
    /\ effects = <<>>
    /\ obj = Nothing
    /\ run = Nothing

CallDpiAdjusting ==
    /\ ret = Idle
    /\ args.op = "dpi_adjusting"
    /\ Finish(dpi_adjusting(img, args.scale))
    /\ UNCHANGED <<img, args, obj, run>>

CallSafeRandomScale ==
    /\ ret = Idle
    /\ args.op = "SafeRandomScale.apply"
    /\ Finish(SafeRandomScale_apply(img, args.scale))
    /\ UNCHANGED <<img, args, obj, run>>

NextGeom == CallDpiAdjusting \/ CallSafeRandomScale

SpecGeom == InitGeom /\ [][NextGeom]_vars

(* ------------------ claims on the scaling operators -------------------- *)
\* n = floor(k * q), stated without the model's arithmetic
IsFloorOf(n, k, q) == n * q[2] <= k * q[1] /\ k * q[1] < (n + 1) * q[2]
\* n = ceil(k * q)
IsCeilOf(n, k, q) == (n - 1) * q[2] < k * q[1] /\ k * q[1] <= n * q[2]

FloorSides == -100..200

FloorOf(k, q) == CHOOSE n \in FloorSides : IsFloorOf(n, k, q)

\* C8: with new_h = floor(h * factor) and new_w = floor(w * factor), the call
\* returns the input image itself, without delegating and without error,
\* exactly when new_h <= 0 or new_w <= 0; otherwise it delegates to the
\* standard scale operator, which yields an image of (new_h, new_w).
C8_SafeScaleGuard ==
    (Called /\ args.op = "SafeRandomScale.apply") =>
        LET new_h == FloorOf(ImgH, args.scale)
            new_w == FloorOf(ImgW, args.scale)
        IN  /\ IsFloorOf(new_h, ImgH, args.scale)
            /\ IsFloorOf(new_w, ImgW, args.scale)
            /\ IF new_h <= 0 \/ new_w <= 0
               THEN ret.kind = "return" /\ ret.value = img /\ effects = <<>>
               ELSE /\ effects = <<"super.apply", "resize">>
                    /\ ret.kind = "return"
                    /\ ret.value.shape = <<new_h, new_w>>

\* a candidate dimension of exactly 0 next to a positive one: a no-op
C8_Witness ==
    /\ Called /\ args.op = "SafeRandomScale.apply"
    /\ args.scale = <<1, 2>> /\ img.shape = <<1, 3>>
    /\ ret.kind = "return" /\ ret.value = img

\* a candidate dimension of exactly 1 is scaled
C8_OneIsScaled ==
    /\ Called /\ args.op = "SafeRandomScale.apply"
    /\ args.scale = <<1, 2>> /\ img.shape = <<2, 3>>
    /\ ret.kind = "return" /\ ret.value.shape = <<1, 1>>

\* C9: for scale > 0 the result of dpi_adjusting has height exactly
\* ceil(h * scale) and width exactly ceil(w * scale), both at least 1; a
\* (100,100) image with scale 0.5 yields (50,50).
C9_DpiAdjustShape ==
    (Called /\ args.op = "dpi_adjusting" /\ args.scale[1] > 0) =>
        /\ ret.kind = "return"
        /\ IsCeilOf(ret.value.shape[1], ImgH, args.scale)
        /\ IsCeilOf(ret.value.shape[2], ImgW, args.scale)
        /\ ret.value.shape[1] >= 1 /\ ret.value.shape[2] >= 1
        /\ (img.shape = <<100, 100>> /\ args.scale = <<1, 2>>) =>
              ret.value.shape = <<50, 50>>

\* a non-square image whose sides round up differently
C9_Witness ==
    /\ Called /\ args.op = "dpi_adjusting"
    /\ args.scale = <<1, 2>> /\ img.shape = <<3, 100>>
    /\ ret.kind = "return" /\ ret.value.shape = <<2, 50>>

(* ------------------- IAMImageTransforms.__post_init__ ------------------ *)
\* the value of a pipeline attribute that was never assigned
Unset == <<>>

\* probabilities with which a stage of A.Compose is applied
Always == <<1, 1>>
Half == <<1, 2>>

Stage(op, p, params) == [op |-> op, p |-> p, params |-> params]

DpiStage(scale) == Stage("dpi_adjusting", Always, [scale |-> scale])
ScaleStage(limit) == Stage("SafeRandomScale", Half, [scale_limit |-> limit])
RotateStage(limit) == Stage("SafeRotate", Half, [limit |-> limit, value |-> 0])
BrightnessStage == Stage("RandomBrightnessContrast", Half, [none |-> None])
PerspectiveStage == Stage("Perspective", Half, [scale |-> <<<<3, 100>>, <<5, 100>>>>])
NoiseStage == Stage("GaussNoise", Half, [none |-> None])
NormalizeStage(np) == Stage("Normalize", Always, [mean |-> np[1], std |-> np[2]])
DisplaceStage(padded_size) ==
    Stage("randomly_displace_and_pad", Always,
          [padded_size |-> padded_size, crop_if_necessary |-> TRUE])
PadStage(min_height, min_width) ==
    Stage("PadIfNeeded", Always,
          [min_height |-> min_height, min_width |-> min_width, value |-> 0])

\* the word recipe without the noise stage
WordTrainShort(scale, limit, rotate, np) ==
    <<DpiStage(scale), ScaleStage(limit), RotateStage(rotate), BrightnessStage,
      NormalizeStage(np)>>

WordTrain(scale, limit, rotate, np) ==
    <<DpiStage(scale), ScaleStage(limit), RotateStage(rotate), BrightnessStage,
      NoiseStage, NormalizeStage(np)>>

WordTest(scale, np) == <<DpiStage(scale), NormalizeStage(np)>>

LineTrain(scale, limit, rotate, np) ==
    <<DpiStage(scale), ScaleStage(limit), RotateStage(rotate), BrightnessStage,
      NoiseStage, NormalizeStage(np)>>

LineTest(scale, np) == <<DpiStage(scale), NormalizeStage(np)>>

FormTrain(scale, limit, rotate, np, padded_size) ==
    <<DpiStage(scale), ScaleStage(limit), RotateStage(rotate), BrightnessStage,
      PerspectiveStage, NoiseStage, NormalizeStage(np), DisplaceStage(padded_size)>>

\* the test pipeline built with the default scale instead of the configured one
FormTestDefaultScale(scale, np, max_img_size) ==
    <<DpiStage(<<1, 2>>), NormalizeStage(np),
      PadStage(max_img_size[1], max_img_size[2])>>

FormTest(scale, np, max_img_size) ==
    <<DpiStage(scale), NormalizeStage(np),
      PadStage(max_img_size[1], max_img_size[2])>>

\* a dispatch that ignores letter case
DispatchAnyCase(parse_method) ==
    IF parse_method \in {"word", "Word"} THEN "word"
    ELSE IF parse_method \in {"line", "Line"} THEN "line"
    ELSE IF parse_method \in {"form", "Form"} THEN "form"
    ELSE "else"

\* the if / elif / else chain on self.parse_method
Dispatch(parse_method) ==
    IF parse_method = "word" THEN "word"
    ELSE IF parse_method = "line" THEN "line"
    ELSE IF parse_method = "form" THEN "form"
    ELSE "else"

\* the construction: the object with both pipelines set, or the error raised
post_init(f) ==
    LET scale == f.scale
        random_scale_limit == f.random_scale_limit
        random_rotate_limit == f.random_rotate_limit
        normalize_params == f.normalize_params
        max_img_h == f.max_img_size[1]
        max_img_w == f.max_img_size[2]
        max_scale == RatAdd(scale, RatMul(scale, random_scale_limit))
        padded_h == CeilMul(max_img_h, max_scale)
        padded_w == CeilMul(max_img_w, max_scale)
        branch == Dispatch(f.parse_method)
        self == [max_img_size |-> f.max_img_size, parse_method |-> f.parse_method,
                 normalize_params |-> normalize_params, scale |-> scale,
                 random_scale_limit |-> random_scale_limit,
                 random_rotate_limit |-> random_rotate_limit,
                 train_trnsf |-> Unset, test_trnsf |-> Unset]
    IN  IF branch = "word" THEN
            [raised |-> Nothing,
             self |-> [self EXCEPT
                 !.train_trnsf = WordTrain(scale, random_scale_limit,
                                           random_rotate_limit, normalize_params),
                 !.test_trnsf = WordTest(scale, normalize_params)]]
        ELSE IF branch = "line" THEN
            [raised |-> Nothing,
             self |-> [self EXCEPT
                 !.train_trnsf = LineTrain(scale, random_scale_limit,
                                           random_rotate_limit, normalize_params),
                 !.test_trnsf = LineTest(scale, normalize_params)]]
        ELSE IF branch = "form" THEN
            [raised |-> Nothing,
             self |-> [self EXCEPT
                 !.train_trnsf = FormTrain(scale, random_scale_limit,
                                           random_rotate_limit, normalize_params,
                                           <<padded_h, padded_w>>),
                 !.test_trnsf = FormTest(scale, normalize_params, f.max_img_size)]]
        ELSE
            [raised |-> Raise("ValueError",
                              <<f.parse_method, " is not a valid parse method.">>,
                              <<"raise">>),
             self |-> self]

(* ------------------------ running a pipeline --------------------------- *)
\* A.RandomScale.get_params: uniform(1 - limit, 1 + limit), on a grid of
\* 2 * ScaleGrid + 1 points that includes both ends
ScaleSamples(limit) ==
    { <<limit[2] * ScaleGrid + k * limit[1], limit[2] * ScaleGrid>> :
        k \in (-ScaleGrid)..ScaleGrid }

\* A.PadIfNeeded: each side smaller than its minimum is padded with the
\* constant 0, half before and the rest after; a side that is already as
\* large is left as it is
PadIfNeeded(image, min_height, min_width) ==
    LET rows == image.shape[1]
        cols == image.shape[2]
        h_pad_top == IF rows < min_height THEN (min_height - rows) \div 2 ELSE 0
        w_pad_left == IF cols < min_width THEN (min_width - cols) \div 2 ELSE 0
        res == np_zeros(Max(rows, min_height), Max(cols, min_width), image.dtype)
    IN  Return(AssignSlice(res, h_pad_top, h_pad_top + rows,
                           w_pad_left, w_pad_left + cols, Pixels(image)), <<>>)

\* the library augmentations keep the shape and the dtype of the image
ShapePreserving(image) ==
    Return(Image(image.shape[1], image.shape[2], image.dtype, "unknown"), <<>>)

\* A.Normalize keeps the shape and yields float32
Normalize(image) ==
    Return(Image(image.shape[1], image.shape[2], "float32", "unknown"), <<>>)

\* the outcomes of applying one stage to an image
ApplyStage(st, image) ==
    IF st.op = "dpi_adjusting" THEN {dpi_adjusting(image, st.params.scale)}
    ELSE IF st.op = "SafeRandomScale" THEN
        { SafeRandomScale_apply(image, f) : f \in ScaleSamples(st.params.scale_limit) }
    ELSE IF st.op = "Normalize" THEN {Normalize(image)}
    ELSE IF st.op = "randomly_displace_and_pad" THEN
        randomly_displace_and_pad(image, st.params.padded_size,
                                  st.params.crop_if_necessary)
    ELSE IF st.op = "PadIfNeeded" THEN
        {PadIfNeeded(image, st.params.min_height, st.params.min_width)}
    ELSE {ShapePreserving(image)}

PipelineInputs == { Image(h, w, "uint8", "ramp") : h \in CfgSides, w \in CfgSides }

Pipeline(mode) == IF mode = "train" THEN obj.train_trnsf ELSE obj.test_trnsf

Finished == run # Nothing /\ (run.raised # Nothing \/ run.pc > Len(Pipeline(run.mode)))

InitPipeline ==
    /\ img = Nothing
    /\ args = NoArgs
    /\ ret = Idle
    /\ effects = <<>>
    /\ obj = Nothing
    /\ run = Nothing

\* IAMImageTransforms(max_img_size, parse_method, normalize_params, ...)
Construct ==
    /\ args = NoArgs
    /\ \E f \in [op : {"IAMImageTransforms"},
                 max_img_size : CfgSides \X CfgSides,
                 parse_method : ParseMethods,
                 normalize_params : CfgNormalizeParams,
                 scale : CfgScales,
                 random_scale_limit : CfgScaleLimits,
                 random_rotate_limit : CfgRotateLimits] :
          LET r == post_init(f) IN
          /\ args' = f
          /\ IF r.raised = Nothing
             THEN obj' = r.self /\ ret' = [kind |-> "return"] /\ effects' = <<>>
             ELSE obj' = Nothing /\ Finish(r.raised)
    /\ UNCHANGED <<img, run>>

Start(mode) ==
    /\ obj # Nothing
    /\ run = Nothing \/ Finished
    /\ \E image \in PipelineInputs :
          /\ img' = image
          /\ run' = [mode |-> mode, pc |-> 1, cur |-> image, raised |-> Nothing]
    /\ effects' = <<>>
    /\ UNCHANGED <<args, ret, obj>>

\* transforms.train_trnsf(image=img)
StartTrain == Start("train")

\* transforms.test_trnsf(image=img)
StartTest == Start("test")

\* a stage with p < 1 is passed over
SkipStage ==
    /\ run # Nothing /\ ~Finished
    /\ Pipeline(run.mode)[run.pc].p # Always
    /\ run' = [run EXCEPT !.pc = @ + 1]
    /\ UNCHANGED <<img, args, ret, effects, obj>>

\* the next stage of the running pipeline is applied to the current image
RunStage ==
    /\ run # Nothing /\ ~Finished
    /\ \E out \in ApplyStage(Pipeline(run.mode)[run.pc], run.cur) :
          /\ effects' = effects \o out.effects
          /\ IF out.kind = "raise"
             THEN run' = [run EXCEPT !.raised = Outcome(out)]
             ELSE run' = [run EXCEPT !.pc = @ + 1, !.cur = out.value]
    /\ UNCHANGED <<img, args, ret, obj>>

NextPipeline == Construct \/ StartTrain \/ StartTest \/ SkipStage \/ RunStage

SpecPipeline == InitPipeline /\ [][NextPipeline]_vars

(* ------------------------ the whole module ----------------------------- *)
Init == InitDisplace \/ InitGeom \/ InitPipeline

Next == CallDisplace \/ CallDpiAdjusting \/ CallSafeRandomScale
        \/ Construct \/ StartTrain \/ StartTest \/ SkipStage \/ RunStage

Spec == Init /\ [][Next]_vars

(* ----------------------- claims on the pipelines ----------------------- *)
Constructed == obj # Nothing
Ops(pipeline) == [i \in 1..Len(pipeline) |-> pipeline[i].op]
ValidParseMethods == {"word", "line", "form"}
AugmentationOps == {"SafeRandomScale", "SafeRotate", "RandomBrightnessContrast",
                    "Perspective", "GaussNoise"}
FramingOps == {"randomly_displace_and_pad", "PadIfNeeded"}

InputWithinMax ==
    /\ img.shape[1] <= obj.max_img_size[1]
    /\ img.shape[2] <= obj.max_img_size[2]

\* ceil(scale * (1 + random_scale_limit) * side), stated without the model's
\* arithmetic
PaddedSides == 0..100
ClaimedPadded(side) ==
    CHOOSE n \in PaddedSides :
        IsCeilOf(n, side, <<obj.scale[1] * (obj.random_scale_limit[2]
                                            + obj.random_scale_limit[1]),
                            obj.scale[2] * obj.random_scale_limit[2]>>)
ClaimedPaddedSize ==
    <<ClaimedPadded(obj.max_img_size[1]), ClaimedPadded(obj.max_img_size[2])>>

FormRun(mode) ==
    /\ run # Nothing
    /\ run.mode = mode
    /\ obj.parse_method = "form"
    /\ InputWithinMax

AtDisplacement ==
    /\ FormRun("train")
    /\ ~Finished
    /\ obj.train_trnsf[run.pc].op = "randomly_displace_and_pad"

\* C4: in the form train pipeline, for an input no larger than max_img_size,
\* the image that reaches the displacement stage is no larger than
\* (padded_h, padded_w), with padded = ceil(scale * (1 + limit) * max), and the
\* displacement stage never crops.
C4_FrameContainsScaled ==
    /\ AtDisplacement =>
          /\ obj.train_trnsf[run.pc].params.padded_size = ClaimedPaddedSize
          /\ run.cur.shape[1] <= ClaimedPaddedSize[1]
          /\ run.cur.shape[2] <= ClaimedPaddedSize[2]
    /\ FormRun("train") => \A i \in 1..Len(effects) : effects[i] # "crop"

\* C5: for parse method form and an input no larger than max_img_size, the
\* train pipeline returns an image of exactly (padded_h, padded_w) and the
\* test pipeline an image of exactly (max_img_h, max_img_w).
C5_FormFixedFrame ==
    /\ (FormRun("train") /\ Finished) =>
          run.raised = Nothing /\ run.cur.shape = ClaimedPaddedSize
    /\ (FormRun("test") /\ Finished) =>
          run.raised = Nothing /\ run.cur.shape = obj.max_img_size

\* the train half of C5 alone: the displacement stage always yields the frame
C5_TrainFrameFixed ==
    (FormRun("train") /\ Finished) =>
        run.raised = Nothing /\ run.cur.shape = ClaimedPaddedSize

\* C6: word and line build the same six train stages and two test stages,
\* form builds eight train stages ending in the displacement (with cropping
\* enabled) and three test stages ending in the padding; DPI adjustment is
\* the first stage of every pipeline and displacement or padding, when
\* present, the last.
C6_StageOrder ==
    Constructed =>
        /\ obj.parse_method \in {"word", "line"} =>
              /\ Ops(obj.train_trnsf) =
                    <<"dpi_adjusting", "SafeRandomScale", "SafeRotate",
                      "RandomBrightnessContrast", "GaussNoise", "Normalize">>
              /\ Ops(obj.test_trnsf) = <<"dpi_adjusting", "Normalize">>
        /\ obj.parse_method = "form" =>
              /\ Ops(obj.train_trnsf) =
                    <<"dpi_adjusting", "SafeRandomScale", "SafeRotate",
                      "RandomBrightnessContrast", "Perspective", "GaussNoise",
                      "Normalize", "randomly_displace_and_pad">>
              /\ obj.train_trnsf[8].params.crop_if_necessary = TRUE
              /\ Ops(obj.test_trnsf) = <<"dpi_adjusting", "Normalize", "PadIfNeeded">>
        /\ \A pl \in {obj.train_trnsf, obj.test_trnsf} :
              /\ Len(pl) > 0
              /\ pl[1].op = "dpi_adjusting"
              /\ \A i \in 1..Len(pl) : pl[i].op \in FramingOps => i = Len(pl)

C6_Witness ==
    /\ Constructed /\ obj.parse_method = "word"
    /\ run # Nothing /\ run.mode = "train" /\ Finished

C6_FormReached == Constructed /\ obj.parse_method = "form" /\ Len(obj.train_trnsf) = 8

\* C7: for a parse method other than word, line and form the construction
\* raises the invalid-configuration error naming the value and builds no
\* pipeline; for each of the three it succeeds with both pipelines set.
C7_UnknownParseMethod ==
    args.op = "IAMImageTransforms" =>
        IF args.parse_method \notin ValidParseMethods
        THEN /\ ret.kind = "raise"
             /\ ret.type = "ValueError"
             /\ ret.msg[1] = args.parse_method
             /\ ~Constructed
        ELSE /\ ret.kind = "return"
             /\ Constructed
             /\ obj.parse_method = args.parse_method
             /\ obj.train_trnsf # Unset
             /\ obj.test_trnsf # Unset

C7_Witness ==
    /\ args.op = "IAMImageTransforms" /\ args.parse_method = "Form"
    /\ ret.kind = "raise"

\* C10: the train and the test pipeline both adjust DPI with the configured
\* scale and normalise with the configured mean and std, and in both the one
\* Normalize stage comes after the DPI adjustment and every augmentation.
C10_SharedScaleAndNormalize ==
    Constructed =>
        \A pl \in {obj.train_trnsf, obj.test_trnsf} :
            /\ \E i \in 1..Len(pl) : pl[i].op = "dpi_adjusting"
            /\ \A i \in 1..Len(pl) :
                  pl[i].op = "dpi_adjusting" => pl[i].params.scale = obj.scale
            /\ \E n \in 1..Len(pl) :
                  /\ pl[n].op = "Normalize"
                  /\ pl[n].params.mean = obj.normalize_params[1]
                  /\ pl[n].params.std = obj.normalize_params[2]
                  /\ \A i \in 1..Len(pl) :
                        /\ pl[i].op = "Normalize" => i = n
                        /\ pl[i].op \in AugmentationOps \cup {"dpi_adjusting"} => i < n

C10_Witness ==
    /\ Constructed /\ obj.parse_method = "form"
    /\ obj.scale = <<3, 2>> /\ obj.normalize_params = <<1, 2>>
    /\ run # Nothing /\ run.mode = "test" /\ Finished

==========================================================================
